---- MODULE Spec2Model ----
(***************************************************************************)
(* The scorers of jp_reading_questions/score.py, the five rule-based ones  *)
(* and the three that ask an external judge, applied to a candidate output *)
(* of the question generator.                                              *)
(*                                                                         *)
(* Python values are tagged records:                                       *)
(*   [t |-> "str",  s |-> s]      a str held inside the data               *)
(*   [t |-> "int",  n |-> n]      an int                                   *)
(*   [t |-> "none"]               None                                     *)
(*   [t |-> "list", xs |-> <<..>>]  a list of values                       *)
(*   [t |-> "dict", kvs |-> <<..>>] a dict, as <<key, value>> pairs in     *)
(*                                insertion order, keys unique             *)
(*   [t |-> "QuestionSet", qs |-> <<..>>]  a pydantic QuestionSet object   *)
(*   [t |-> "text", toks |-> <<..>>]  a str handed to a scorer, held as    *)
(*                                the sequence of its JSON tokens          *)
(***************************************************************************)
EXTENDS Integers, Sequences, FiniteSets, TLC

VARIABLES outputs, called, returned, ENABLE_LLM_SCORERS, judge

vars == <<outputs, called, returned, ENABLE_LLM_SCORERS, judge>>

(***************************************************************************)
(* Bounds of the model.                                                    *)
(***************************************************************************)
MaxQuestions == 3

(***************************************************************************)
(* Python values.                                                          *)
(***************************************************************************)
Str(s) == [t |-> "str", s |-> s]
Int_(n) == [t |-> "int", n |-> n]
None == [t |-> "none"]
List(xs) == [t |-> "list", xs |-> xs]
Dict(kvs) == [t |-> "dict", kvs |-> kvs]
QuestionSet(qs) == [t |-> "QuestionSet", qs |-> qs]
Text(toks) == [t |-> "text", toks |-> toks]

\* isinstance(x, dict), isinstance(x, list), isinstance(x, str)
is_dict(x) == x.t = "dict"
is_list(x) == x.t = "list"
is_str(x) == x.t \in {"str", "text"}

\* hash(x) succeeds: list and dict are unhashable
hashable(x) == x.t \in {"str", "int", "none"}

\* key in d, for a dict d
dict_has(d, key) == \E i \in 1..Len(d.kvs) : d.kvs[i][1] = key

\* d[key], for a dict d that has the key
dict_get(d, key) == d.kvs[CHOOSE i \in 1..Len(d.kvs) : d.kvs[i][1] = key][2]

\* d.get(key, default)
dict_get_default(d, key, default) ==
    IF dict_has(d, key) THEN dict_get(d, key) ELSE default

\* d[key] = val on the pair list of a dict: a repeated key keeps its place
\* and takes the last value
dict_set(kvs, key, val) ==
    IF \E i \in 1..Len(kvs) : kvs[i][1] = key
    THEN [i \in 1..Len(kvs) |-> IF kvs[i][1] = key THEN <<key, val>> ELSE kvs[i]]
    ELSE Append(kvs, <<key, val>>)

(***************************************************************************)
(* JSON text.  A token is [k |-> kind], with the payload of a literal, the *)
(* kinds being the six punctuation marks, "str", "num", "null" and "word"  *)
(* (a run of characters that is no JSON literal).                          *)
(***************************************************************************)
P(c) == [k |-> c]
TStr(s) == [k |-> "str", s |-> s]
TNum(n) == [k |-> "num", n |-> n]
TNull == [k |-> "null"]
TWord(w) == [k |-> "word", w |-> w]

Tok(toks, i) == IF i <= Len(toks) THEN toks[i] ELSE [k |-> "eof"]

ParseOk(val, next) == [ok |-> TRUE, val |-> val, next |-> next]
JSONDecodeError(msg) == [ok |-> FALSE, exc |-> "JSONDecodeError", msg |-> msg]
ValueError(msg, type) ==
    [ok |-> FALSE, exc |-> "ValueError", msg |-> msg, type |-> type]

RECURSIVE parse_value(_, _), parse_array(_, _, _), parse_object(_, _, _)

\* the value that starts at token i
parse_value(toks, i) ==
    LET tk == Tok(toks, i) IN
    CASE tk.k = "str" -> ParseOk(Str(tk.s), i + 1)
      [] tk.k = "num" -> ParseOk(Int_(tk.n), i + 1)
      [] tk.k = "null" -> ParseOk(None, i + 1)
      [] tk.k = "[" -> IF Tok(toks, i + 1).k = "]"
                       THEN ParseOk(List(<<>>), i + 2)
                       ELSE parse_array(toks, i + 1, <<>>)
      [] tk.k = "{" -> IF Tok(toks, i + 1).k = "}"
                       THEN ParseOk(Dict(<<>>), i + 2)
                       ELSE parse_object(toks, i + 1, <<>>)
      [] OTHER -> JSONDecodeError("Expecting value")

\* the rest of an array whose next element starts at token i
parse_array(toks, i, acc) ==
    LET r == parse_value(toks, i) IN
    IF ~r.ok THEN r
    ELSE LET sep == Tok(toks, r.next) IN
         CASE sep.k = "," -> parse_array(toks, r.next + 1, Append(acc, r.val))
           [] sep.k = "]" -> ParseOk(List(Append(acc, r.val)), r.next + 1)
           [] OTHER -> JSONDecodeError("Expecting ',' delimiter")

\* the rest of an object whose next key starts at token i
parse_object(toks, i, acc) ==
    IF Tok(toks, i).k # "str"
    THEN JSONDecodeError("Expecting property name enclosed in double quotes")
    ELSE IF Tok(toks, i + 1).k # ":"
    THEN JSONDecodeError("Expecting ':' delimiter")
    ELSE LET r == parse_value(toks, i + 2) IN
         IF ~r.ok THEN r
         ELSE LET sep == Tok(toks, r.next)
                  acc2 == dict_set(acc, Tok(toks, i).s, r.val) IN
              CASE sep.k = "," -> parse_object(toks, r.next + 1, acc2)
                [] sep.k = "}" -> ParseOk(Dict(acc2), r.next + 1)
                [] OTHER -> JSONDecodeError("Expecting ',' delimiter")

\* json.loads(text): the value, or the JSONDecodeError it raises
json_loads(toks) ==
    LET r == parse_value(toks, 1) IN
    IF ~r.ok THEN r
    ELSE IF r.next <= Len(toks) THEN JSONDecodeError("Extra data")
    ELSE r

RECURSIVE json_dumps(_), dumps_items(_, _), dumps_members(_, _)

\* the JSON text of a value made of dicts, lists, strs, ints and None
json_dumps(x) ==
    CASE x.t = "str" -> <<TStr(x.s)>>
      [] x.t = "int" -> <<TNum(x.n)>>
      [] x.t = "none" -> <<TNull>>
      [] x.t = "list" -> <<P("[")>> \o dumps_items(x.xs, 1) \o <<P("]")>>
      [] x.t = "dict" -> <<P("{")>> \o dumps_members(x.kvs, 1) \o <<P("}")>>

dumps_items(xs, i) ==
    IF i > Len(xs) THEN <<>>
    ELSE json_dumps(xs[i])
         \o (IF i < Len(xs) THEN <<P(",")>> ELSE <<>>)
         \o dumps_items(xs, i + 1)

dumps_members(kvs, i) ==
    IF i > Len(kvs) THEN <<>>
    ELSE <<TStr(kvs[i][1]), P(":")>> \o json_dumps(kvs[i][2])
         \o (IF i < Len(kvs) THEN <<P(",")>> ELSE <<>>)
         \o dumps_members(kvs, i + 1)

\* QuestionSet.model_dump_json(): the text of {"questions": [...]}
model_dump_json(qset) ==
    Text(json_dumps(Dict(<< <<"questions", List(qset.qs)>> >>)))

(***************************************************************************)
(* What a call of a scorer gives its caller: a Feedback, or an exception.  *)
(***************************************************************************)
Feedback(value, rationale) ==
    [kind |-> "Feedback", value |-> value, rationale |-> rationale]
Raise(exc) == [kind |-> "raise", exc |-> exc]
NotCalled == [kind |-> "none"]

\* the name Python prints for type(x)
type_name(x) ==
    CASE x.t = "int" -> "int"
      [] x.t = "none" -> "NoneType"
      [] x.t = "list" -> "list"
      [] x.t = "dict" -> "dict"
      [] x.t = "QuestionSet" -> "QuestionSet"
      [] OTHER -> "str"

(***************************************************************************)
(* The category labels of the source, transliterated:                      *)
(*   JIJITSU            事実                                               *)
(*   MAIN_POINT         メインポイント                                     *)
(*   ANJI_MESSAGE       暗示されたメッセージ                               *)
(*   BUNPOU             文法                                               *)
(*   HYOUGEN            表現                                               *)
(*   BUNPOU_YA_HYOUGEN  文法や表現                                         *)
(*   MAIN_OR_ANJI       メインポイント/暗示されたメッセージ                *)
(*   JIJITSU_PADDED     事実 with a blank before and after it              *)
(***************************************************************************)
JIJITSU == "jijitsu"
MAIN_POINT == "meinpointo"
ANJI_MESSAGE == "anji sareta messeji"
BUNPOU == "bunpou"
HYOUGEN == "hyougen"
BUNPOU_YA_HYOUGEN == "bunpou ya hyougen"
MAIN_OR_ANJI == "meinpointo/anji sareta messeji"
JIJITSU_PADDED == " jijitsu "

\* needle in hay, for two strs: hay contains needle
SubstringTable ==
    { <<"questions", "no questions here">>,
      <<JIJITSU, JIJITSU_PADDED>>,
      <<MAIN_POINT, MAIN_OR_ANJI>>,
      <<ANJI_MESSAGE, MAIN_OR_ANJI>>,
      <<BUNPOU, BUNPOU_YA_HYOUGEN>>,
      <<HYOUGEN, BUNPOU_YA_HYOUGEN>> }
str_contains(hay, needle) == hay = needle \/ <<needle, hay>> \in SubstringTable

\* `key in x` raises TypeError unless x is a container or a str
in_raises(x) == x.t \notin {"dict", "list", "str"}

\* `key in x` for a str key: a key of a dict, an element of a list, a
\* substring of a str
in_(key, x) ==
    CASE x.t = "dict" -> dict_has(x, key)
      [] x.t = "list" -> \E i \in 1..Len(x.xs) : x.xs[i].t = "str" /\ x.xs[i].s = key
      [] x.t = "str" -> str_contains(x.s, key)

\* load_outputs, were a bare list taken for the questions of a mapping
load_outputs_wrapping_list(o) ==
    LET wrap(x) == IF is_list(x) THEN Dict(<< <<"questions", x>> >>) ELSE x IN
    IF is_dict(o) \/ is_list(o) THEN [ok |-> TRUE, val |-> wrap(o)]
    ELSE IF is_str(o)
    THEN LET r == json_loads(o.toks) IN
         IF r.ok THEN [ok |-> TRUE, val |-> wrap(r.val)] ELSE r
    ELSE ValueError("Unexpected type: {type(outputs)}", type_name(o))

\* load_outputs, were the str branch missing
load_outputs_dict_only(o) ==
    IF is_dict(o) THEN [ok |-> TRUE, val |-> o]
    ELSE ValueError("Unexpected type: {type(outputs)}", type_name(o))

\* The opening try block of every scorer: the parsed output, or the error
\* the except clause caught.
load_outputs(o) ==
    IF is_dict(o) THEN [ok |-> TRUE, val |-> o]
    ELSE IF is_str(o)
    THEN LET r == json_loads(o.toks) IN
         IF r.ok THEN [ok |-> TRUE, val |-> r.val] ELSE r
    ELSE ValueError("Unexpected type: {type(outputs)}", type_name(o))

\* not_valid_json, were the except clause to raise the error again
not_valid_json_reraised(e) == Raise(e.exc)

not_valid_json(e) ==
    Feedback("no", [msg |-> "Output is not valid JSON: {e}", e |-> e])

(***************************************************************************)
(* json_format_correct                                                     *)
(***************************************************************************)
required_fields == <<"category", "question", "options", "answer">>

\* missing_fields, were only the first two fields required
missing_fields_first_two(q) ==
    SelectSeq(<<"category", "question">>, LAMBDA f : ~dict_has(q, f))

missing_fields(q) == SelectSeq(required_fields, LAMBDA f : ~dict_has(q, f))

json_format_correct(o) ==
    LET ld == load_outputs(o) IN
    IF ~ld.ok THEN not_valid_json(ld)
    ELSE IF ~is_dict(ld.val) \/ ~dict_has(ld.val, "questions")
    THEN Feedback("no", [msg |-> "Output JSON does not contain the required 'questions' key."])
    ELSE LET questions == dict_get(ld.val, "questions") IN
    IF ~is_list(questions)
    THEN Feedback("no", [msg |-> "'questions' must be a list."])
    ELSE LET qs == questions.xs
             bad == {i \in 1..Len(qs) :
                        ~is_dict(qs[i]) \/ missing_fields(qs[i]) # <<>>} IN
    IF bad # {}
    THEN LET i == CHOOSE j \in bad : \A m \in bad : j <= m IN
         IF ~is_dict(qs[i])
         THEN Feedback("no", [msg |-> "Question {i} is not a dictionary.", i |-> i - 1])
         ELSE Feedback("no", [msg |-> "Question {i} is missing fields: {missing}",
                              i |-> i - 1, missing |-> missing_fields(qs[i])])
    ELSE Feedback("yes", [msg |-> "Output is valid JSON with {n} properly formatted questions.",
                          n |-> Len(qs)])

(***************************************************************************)
(* The check every other scorer makes after parsing:                       *)
(*   "questions" not in output_json                                        *)
(*       or not isinstance(output_json["questions"], list)                 *)
(* "list": the questions are there; "no": the scorer answers "No questions *)
(* found in output."; "raise": the expression raises TypeError.            *)
(***************************************************************************)
questions_check(output_json) ==
    IF in_raises(output_json) THEN "raise"
    ELSE IF ~in_("questions", output_json) THEN "no"
    ELSE IF ~is_dict(output_json) THEN "raise"
    ELSE IF ~is_list(dict_get(output_json, "questions")) THEN "no"
    ELSE "list"

no_questions_found == Feedback("no", [msg |-> "No questions found in output."])

(***************************************************************************)
(* has_all_categories                                                      *)
(***************************************************************************)
has_category(q) == is_dict(q) /\ dict_has(q, "category")

\* the labels that count for the message bucket and for the grammar bucket
message_labels == {MAIN_POINT, ANJI_MESSAGE}

\* grammar_labels, were they taken from expected_categories, which lacks
\* the combined label
grammar_labels_expected == {BUNPOU, HYOUGEN}

grammar_labels == {BUNPOU, HYOUGEN, BUNPOU_YA_HYOUGEN}

\* in_categories, were a label looked for inside each category
in_categories_substring(label, categories) ==
    \E c \in categories : c.t = "str" /\ str_contains(c.s, label)

\* `label in categories`, categories being a set: equality with a member
in_categories(label, categories) ==
    \E c \in categories : c.t = "str" /\ c.s = label

\* missing_categories, were the three tests an if/elif chain
missing_categories_first_only(has_fact, has_message, has_grammar) ==
    IF ~has_fact THEN <<JIJITSU>>
    ELSE IF ~has_message THEN <<MAIN_OR_ANJI>>
    ELSE IF ~has_grammar THEN <<BUNPOU_YA_HYOUGEN>>
    ELSE <<>>

\* the list `missing` of the failing branch, in the order of its appends
missing_categories(has_fact, has_message, has_grammar) ==
    (IF ~has_fact THEN <<JIJITSU>> ELSE <<>>)
    \o (IF ~has_message THEN <<MAIN_OR_ANJI>> ELSE <<>>)
    \o (IF ~has_grammar THEN <<BUNPOU_YA_HYOUGEN>> ELSE <<>>)

has_all_categories(o) ==
    LET ld == load_outputs(o) IN
    IF ~ld.ok THEN not_valid_json(ld)
    ELSE LET chk == questions_check(ld.val) IN
    IF chk = "raise" THEN Raise("TypeError")
    ELSE IF chk = "no" THEN no_questions_found
    ELSE LET qs == dict_get(ld.val, "questions").xs
             with == {i \in 1..Len(qs) : has_category(qs[i])} IN
    IF \E i \in with : ~hashable(dict_get(qs[i], "category"))
    THEN Raise("TypeError")
    ELSE LET categories == {dict_get(qs[i], "category") : i \in with}
             has_fact == in_categories(JIJITSU, categories)
             has_message == \E cat \in message_labels :
                                in_categories(cat, categories)
             has_grammar == \E cat \in grammar_labels :
                                in_categories(cat, categories)
             missing == missing_categories(has_fact, has_message, has_grammar) IN
    IF has_fact /\ has_message /\ has_grammar
    THEN Feedback("yes", [msg |-> "Output contains all required category types. Found categories: {categories}",
                          categories |-> categories])
    ELSE Feedback("no", [msg |-> "Missing categories: {missing}. Found categories: {categories}",
                         missing |-> missing, categories |-> categories])

(***************************************************************************)
(* options_are_unique                                                      *)
(***************************************************************************)
has_options(q) == is_dict(q) /\ dict_has(q, "options")

\* set(options) raises TypeError on an unhashable item
set_raises(options) == \E j \in 1..Len(options.xs) : ~hashable(options.xs[j])

count(options, opt) == Cardinality({j \in 1..Len(options.xs) : options.xs[j] = opt})

\* collect_issues, were the loop to stop at the first issue
collect_first_issue(results) ==
    LET found == SelectSeq(results, LAMBDA x : x.kind = "issue") IN
    IF found = <<>> THEN <<>> ELSE <<Head(found)>>

\* the list `issues` after the loop over the questions: what the questions
\* appended, in question order
collect_issues(results) == SelectSeq(results, LAMBDA x : x.kind = "issue")

\* unique_issue, were only neighbouring options compared
unique_issue_neighbours(q, i) ==
    IF ~has_options(q) THEN [kind |-> "ok"]
    ELSE LET options == dict_get(q, "options") IN
    IF ~is_list(options)
    THEN [kind |-> "issue", i |-> i, msg |-> "Question {i}: options is not a list"]
    ELSE IF \E j \in 1..(Len(options.xs) - 1) : options.xs[j] = options.xs[j + 1]
    THEN [kind |-> "issue", i |-> i,
          msg |-> "Question {i}: has duplicate options: {set(duplicates)}",
          duplicates |-> {options.xs[j] : j \in {m \in 1..(Len(options.xs) - 1) :
                                                   options.xs[m] = options.xs[m + 1]}}]
    ELSE [kind |-> "ok"]

\* the issue question i adds to the list, [kind |-> "ok"] when it adds none
unique_issue(q, i) ==
    IF ~has_options(q) THEN [kind |-> "ok"]
    ELSE LET options == dict_get(q, "options") IN
    IF ~is_list(options)
    THEN [kind |-> "issue", i |-> i, msg |-> "Question {i}: options is not a list"]
    ELSE IF Len(options.xs) # Cardinality({options.xs[j] : j \in 1..Len(options.xs)})
    THEN [kind |-> "issue", i |-> i,
          msg |-> "Question {i}: has duplicate options: {set(duplicates)}",
          duplicates |-> {options.xs[j] : j \in {m \in 1..Len(options.xs) :
                                                   count(options, options.xs[m]) > 1}}]
    ELSE [kind |-> "ok"]

options_are_unique(o) ==
    LET ld == load_outputs(o) IN
    IF ~ld.ok THEN not_valid_json(ld)
    ELSE LET chk == questions_check(ld.val) IN
    IF chk = "raise" THEN Raise("TypeError")
    ELSE IF chk = "no" THEN no_questions_found
    ELSE LET qs == dict_get(ld.val, "questions").xs IN
    IF \E i \in 1..Len(qs) :
          /\ has_options(qs[i])
          /\ is_list(dict_get(qs[i], "options"))
          /\ set_raises(dict_get(qs[i], "options"))
    THEN Raise("TypeError")
    ELSE LET issues == collect_issues([i \in 1..Len(qs) |-> unique_issue(qs[i], i - 1)]) IN
    IF issues # <<>>
    THEN Feedback("no", [msg |-> "Found issues with option uniqueness: {'; '.join(issues)}",
                         issues |-> issues])
    ELSE Feedback("yes", [msg |-> "All {n} questions have unique options.",
                          n |-> Len(qs)])

(***************************************************************************)
(* answer_is_valid                                                         *)
(***************************************************************************)
valid_answers == {"A", "B", "C", "D"}

\* ord(answer) - ord('A')
answer_index(answer) ==
    CASE answer = "A" -> 0 [] answer = "B" -> 1 [] answer = "C" -> 2 [] answer = "D" -> 3

q_answer(q) == dict_get_default(q, "answer", Str(""))
q_options(q) == dict_get_default(q, "options", List(<<>>))

in_valid_answers(answer) == answer.t = "str" /\ answer.s \in valid_answers

\* answer_issue, were the index compared with > in place of >=
answer_issue_off_by_one(q, i) ==
    IF ~is_dict(q) THEN [kind |-> "ok"]
    ELSE LET answer == q_answer(q)
             options == q_options(q) IN
    IF ~in_valid_answers(answer)
    THEN [kind |-> "issue", i |-> i,
          msg |-> "Question {i}: answer '{answer}' is not A, B, C, or D",
          answer |-> answer]
    ELSE IF is_list(options) /\ answer_index(answer.s) > Len(options.xs)
    THEN [kind |-> "issue", i |-> i,
          msg |-> "Question {i}: answer '{answer}' references option {answer_index + 1} but only {len(options)} options exist",
          answer |-> answer, option |-> answer_index(answer.s) + 1,
          n |-> Len(options.xs)]
    ELSE [kind |-> "ok"]

\* the issue question i adds to the list, [kind |-> "ok"] when it adds none
answer_issue(q, i) ==
    IF ~is_dict(q) THEN [kind |-> "ok"]
    ELSE LET answer == q_answer(q)
             options == q_options(q) IN
    IF ~in_valid_answers(answer)
    THEN [kind |-> "issue", i |-> i,
          msg |-> "Question {i}: answer '{answer}' is not A, B, C, or D",
          answer |-> answer]
    ELSE IF is_list(options) /\ answer_index(answer.s) >= Len(options.xs)
    THEN [kind |-> "issue", i |-> i,
          msg |-> "Question {i}: answer '{answer}' references option {answer_index + 1} but only {len(options)} options exist",
          answer |-> answer, option |-> answer_index(answer.s) + 1,
          n |-> Len(options.xs)]
    ELSE [kind |-> "ok"]

answer_is_valid(o) ==
    LET ld == load_outputs(o) IN
    IF ~ld.ok THEN not_valid_json(ld)
    ELSE LET chk == questions_check(ld.val) IN
    IF chk = "raise" THEN Raise("TypeError")
    ELSE IF chk = "no" THEN no_questions_found
    ELSE LET qs == dict_get(ld.val, "questions").xs IN
    IF \E i \in 1..Len(qs) : is_dict(qs[i]) /\ ~hashable(q_answer(qs[i]))
    THEN Raise("TypeError")
    ELSE LET issues == collect_issues([i \in 1..Len(qs) |-> answer_issue(qs[i], i - 1)]) IN
    IF issues # <<>>
    THEN Feedback("no", [msg |-> "Found invalid answers: {'; '.join(issues)}",
                         issues |-> issues])
    ELSE Feedback("yes", [msg |-> "All {n} questions have valid answers.",
                          n |-> Len(qs)])

(***************************************************************************)
(* has_sufficient_questions                                                *)
(***************************************************************************)
MinQuestions == 3

\* too_few, were the test <= in place of <
too_few_or_just_enough(num_questions) == num_questions <= MinQuestions

\* the test `num_questions < 3`
too_few(num_questions) == num_questions < MinQuestions

has_sufficient_questions(o) ==
    LET ld == load_outputs(o) IN
    IF ~ld.ok THEN not_valid_json(ld)
    ELSE LET chk == questions_check(ld.val) IN
    IF chk = "raise" THEN Raise("TypeError")
    ELSE IF chk = "no" THEN no_questions_found
    ELSE LET num_questions == Len(dict_get(ld.val, "questions").xs) IN
    IF too_few(num_questions)
    THEN Feedback("no", [msg |-> "Only {num_questions} questions generated. Expected at least 3 for adequate coverage.",
                         num_questions |-> num_questions])
    ELSE Feedback("yes", [msg |-> "Generated {num_questions} questions, which provides good coverage.",
                          num_questions |-> num_questions])

(***************************************************************************)
(* The semantic scorers, defined when ENABLE_LLM_SCORERS is set.  They     *)
(* hand a prompt to an external judge.  What the surroundings do on one    *)
(* call is a record e:                                                     *)
(*   e.prompt_file  "found" or "missing": open() of prompts/scorers/x.md   *)
(*   e.template     "ok" or "unknown field": str.format of the template    *)
(*   e.api_key      "set" or "unset": ChatOpenAI(...) needs the key        *)
(*   e.invoke       what llm.invoke(prompt) does                           *)
(***************************************************************************)
ScorerJudgment(passed, reason) ==
    [kind |-> "ScorerJudgment", passed |-> passed, reason |-> reason]
InvokeRaises(exc) == [kind |-> "raise", exc |-> exc]
InvokeNone == [kind |-> "None"]
NotInvoked == [kind |-> "not invoked"]

\* load_scorer_prompt: open() raises when the file is not there
load_scorer_prompt_raises(e) == e.prompt_file = "missing"

\* prompt_template.format(...) raises KeyError on a field it is not given
format_raises(e) == e.template = "unknown field"

\* ChatOpenAI(model=..., temperature=0) raises without an API key
ChatOpenAI_raises(e) == e.api_key = "unset"

\* From the loading of the prompt template to the return: the three steps
\* before the try block raise to the caller; llm.invoke is inside it.
judge_verdict(label, e) ==
    IF load_scorer_prompt_raises(e) THEN Raise("FileNotFoundError")
    ELSE IF format_raises(e) THEN Raise("KeyError")
    ELSE IF ChatOpenAI_raises(e) THEN Raise("OpenAIError")
    ELSE IF e.invoke.kind = "ScorerJudgment"
    THEN Feedback(IF e.invoke.passed THEN "yes" ELSE "no",
                  [msg |-> label, reason |-> e.invoke.reason])
    ELSE IF e.invoke.kind = "None"
    THEN Feedback("no", [msg |-> "Error during LLM evaluation: {e}",
                         e |-> [exc |-> "AttributeError"]])
    ELSE Feedback("no", [msg |-> "Error during LLM evaluation: {e}",
                         e |-> [exc |-> e.invoke.exc]])

\* `not jp_text` for jp_text = inputs.get("jp_text", "")
no_jp_text(inputs) ==
    LET jp_text == dict_get_default(inputs, "jp_text", Str("")) IN
    jp_text = Str("") \/ jp_text = None

\* "\n".join(options) raises TypeError unless options is an iterable of
\* strs: a str (its characters), a dict (its keys), a list of strs
join_raises(options) ==
    CASE options.t = "str" -> FALSE
      [] options.t = "dict" -> FALSE
      [] options.t = "list" -> \E j \in 1..Len(options.xs) : options.xs[j].t # "str"
      [] OTHER -> TRUE

has_keys(q, keys) == is_dict(q) /\ \A k \in keys : dict_has(q, k)

question_text_relevance(o, inputs, e) ==
    LET ld == load_outputs(o) IN
    IF ~ld.ok THEN not_valid_json(ld)
    ELSE LET chk == questions_check(ld.val) IN
    IF chk = "raise" THEN Raise("TypeError")
    ELSE IF chk = "no" THEN no_questions_found
    ELSE IF no_jp_text(inputs)
    THEN Feedback("no", [msg |-> "No input text provided for relevance check."])
    ELSE judge_verdict("Question relevance: {result.reason}", e)

option_quality(o, e) ==
    LET ld == load_outputs(o) IN
    IF ~ld.ok THEN not_valid_json(ld)
    ELSE LET chk == questions_check(ld.val) IN
    IF chk = "raise" THEN Raise("TypeError")
    ELSE IF chk = "no" THEN no_questions_found
    ELSE LET qs == dict_get(ld.val, "questions").xs IN
    IF \E i \in 1..Len(qs) :
          /\ has_keys(qs[i], {"question", "options"})
          /\ join_raises(dict_get(qs[i], "options"))
    THEN Raise("TypeError")
    ELSE judge_verdict("Option quality: {result.reason}", e)

answer_correctness_check(o, inputs, e) ==
    LET ld == load_outputs(o) IN
    IF ~ld.ok THEN not_valid_json(ld)
    ELSE LET chk == questions_check(ld.val) IN
    IF chk = "raise" THEN Raise("TypeError")
    ELSE IF chk = "no" THEN no_questions_found
    ELSE IF no_jp_text(inputs)
    THEN Feedback("no", [msg |-> "No input text provided for answer verification."])
    ELSE LET qs == dict_get(ld.val, "questions").xs IN
    IF \E i \in 1..Len(qs) :
          /\ has_keys(qs[i], {"question", "options", "answer"})
          /\ join_raises(dict_get(qs[i], "options"))
    THEN Raise("TypeError")
    ELSE judge_verdict("Answer correctness: {result.reason}", e)

(***************************************************************************)
(* The candidate outputs.  The generator is a language model, so a         *)
(* candidate is untrusted: the questions of a candidate are drawn from     *)
(* Pool, which holds well-formed questions and malformed ones.             *)
(***************************************************************************)
Q(category, options, answer) ==
    Dict(<< <<"category", category>>, <<"question", Str("q")>>,
            <<"options", options>>, <<"answer", answer>> >>)

Strs(ss) == List([j \in 1..Len(ss) |-> Str(ss[j])])

Pool ==
    << Q(Str(JIJITSU), Strs(<<"a", "b", "c", "d">>), Str("A")),
       Q(Str(MAIN_POINT), Strs(<<"a", "b">>), Str("B")),
       Q(Str(BUNPOU_YA_HYOUGEN), Strs(<<"a", "b">>), Str("C")),
       Q(Str(ANJI_MESSAGE), Strs(<<"a", "b", "a">>), Str("A")),
       Q(Str(BUNPOU), Strs(<<"a", "A">>), Str("E")),
       Dict(<< <<"category", Str(HYOUGEN)>>, <<"question", Str("q")>> >>),
       Q(Strs(<<JIJITSU>>), Str("a"), Strs(<<"A">>)),
       Str("q"),
       Q(Str(MAIN_OR_ANJI), List(<<Str("a"), Strs(<<"b">>)>>), Int_(2)) >>

\* the question lists of at most MaxQuestions questions
QuestionLists ==
    UNION {{[i \in 1..n |-> Pool[f[i]]] : f \in [1..n -> 1..Len(Pool)]} :
             n \in 0..MaxQuestions}

\* what pydantic accepts as a Question: the four fields, of the declared types
is_question(q) ==
    /\ is_dict(q)
    /\ \A j \in 1..Len(required_fields) : dict_has(q, required_fields[j])
    /\ dict_get(q, "category").t = "str"
    /\ dict_get(q, "question").t = "str"
    /\ dict_get(q, "answer").t = "str"
    /\ is_list(dict_get(q, "options"))
    /\ \A j \in 1..Len(dict_get(q, "options").xs) :
          dict_get(q, "options").xs[j].t = "str"

Wrapped(qs) == Dict(<< <<"questions", List(qs)>> >>)

\* texts and values that hold no question list
OtherCandidates ==
    { Text(<<TWord("not"), TWord("json")>>),
      Text(<<>>),
      Text(<<TNum(5)>>),
      Text(<<TNull>>),
      Text(<<TStr("abc")>>),
      Text(<<TStr("questions")>>),
      Text(<<TStr("no questions here")>>),
      Text(<<P("["), TStr("questions"), P("]")>>),
      Text(<<P("["), TNum(1), TNum(2), P("]")>>),
      Text(<<P("["), TNum(1), P(","), P("]")>>),
      Text(<<P("{"), P("}")>>),
      Text(<<P("{"), TStr("questions"), P(":"), TStr("abc"), P("}")>>),
      Text(<<P("{"), TStr("questions"), P(":"), TNull, P("}")>>),
      Text(<<P("{"), TStr("questions"), P(":"), P("[")>>),
      Text(<<P("{"), TStr("questions"), P("["), P("]"), P("}")>>),
      Text(<<P("{"), TNum(1), P(":"), TNum(2), P("}")>>),
      Text(<<P("{"), TStr("questions"), P(":"), P("["), P("]"), P("}"), TWord("thanks")>>),
      Text(<<P("{"), TStr("questions"), P(":"), TNum(5), P(","),
             TStr("questions"), P(":"), P("[")>> \o json_dumps(Pool[1])
           \o <<P("]"), P("}")>>),
      Text(json_dumps(Dict(<< <<"error", Str("Failed to parse output")>>,
                              <<"raw_output", Str("abc")>>,
                              <<"exception", Str("abc")>> >>))),
      Dict(<<>>),
      Dict(<< <<"questions", Str("abc")>> >>),
      Dict(<< <<"questions", None>> >>),
      Int_(5),
      None }

\* candidates with a category that holds a label between blanks
LabelCandidates ==
    LET padded == Q(Str(JIJITSU_PADDED), Strs(<<"a", "b">>), Str("A")) IN
    { Wrapped(<<padded, Pool[2], Pool[3]>>),
      Text(json_dumps(Wrapped(<<padded, Pool[2], Pool[3]>>))),
      Wrapped(<<padded, Pool[1], Pool[4], Pool[6]>>),
      Wrapped(<<padded>>) }

Candidates ==
    {Wrapped(qs) : qs \in QuestionLists}
    \cup {Text(json_dumps(Wrapped(qs))) : qs \in QuestionLists}
    \cup {List(qs) : qs \in QuestionLists}
    \cup {Text(json_dumps(List(qs))) : qs \in QuestionLists}
    \cup {QuestionSet(qs) :
            qs \in {x \in QuestionLists : \A i \in 1..Len(x) : is_question(x[i])}}
    \cup OtherCandidates
    \cup LabelCandidates

(***************************************************************************)
(* The state: the candidate output of one sample, the scorer called last   *)
(* on it, what that call gave its caller, the flag read from the           *)
(* environment when score.py is imported, and what llm.invoke did in the   *)
(* last call (NotInvoked when the call did not get that far).              *)
(*                                                                         *)
(* Init: the rule-based scorers on their own.  ENABLE_LLM_SCORERS is unset *)
(* in the environment, so the flag has its default.                        *)
(***************************************************************************)
Init ==
    /\ outputs \in Candidates
    /\ called = "none"
    /\ returned = NotCalled
    /\ ENABLE_LLM_SCORERS = FALSE
    /\ judge = NotInvoked

\* predict_fn hands on the model's QuestionSet as JSON text
predict_fn ==
    /\ outputs.t = "QuestionSet"
    /\ outputs' = model_dump_json(outputs)
    /\ called' = "none"
    /\ returned' = NotCalled
    /\ judge' = NotInvoked
    /\ UNCHANGED ENABLE_LLM_SCORERS

Run_json_format_correct ==
    /\ called' = "json_format_correct"
    /\ returned' = json_format_correct(outputs)
    /\ judge' = NotInvoked
    /\ UNCHANGED <<outputs, ENABLE_LLM_SCORERS>>

Run_has_all_categories ==
    /\ called' = "has_all_categories"
    /\ returned' = has_all_categories(outputs)
    /\ judge' = NotInvoked
    /\ UNCHANGED <<outputs, ENABLE_LLM_SCORERS>>

Run_options_are_unique ==
    /\ called' = "options_are_unique"
    /\ returned' = options_are_unique(outputs)
    /\ judge' = NotInvoked
    /\ UNCHANGED <<outputs, ENABLE_LLM_SCORERS>>

Run_answer_is_valid ==
    /\ called' = "answer_is_valid"
    /\ returned' = answer_is_valid(outputs)
    /\ judge' = NotInvoked
    /\ UNCHANGED <<outputs, ENABLE_LLM_SCORERS>>

Run_has_sufficient_questions ==
    /\ called' = "has_sufficient_questions"
    /\ returned' = has_sufficient_questions(outputs)
    /\ judge' = NotInvoked
    /\ UNCHANGED <<outputs, ENABLE_LLM_SCORERS>>

Next ==
    \/ predict_fn
    \/ Run_json_format_correct
    \/ Run_has_all_categories
    \/ Run_options_are_unique
    \/ Run_answer_is_valid
    \/ Run_has_sufficient_questions

Spec == Init /\ [][Next]_vars

(***************************************************************************)
(* The evaluation of main.py: the flag is whatever the environment says,   *)
(* and mlflow.genai.evaluate runs the scorers of the list `scorers`.       *)
(***************************************************************************)
rule_based_scorers ==
    <<"json_format_correct", "has_all_categories", "options_are_unique",
      "answer_is_valid", "has_sufficient_questions">>

llm_based_scorers ==
    <<"question_text_relevance", "option_quality", "answer_correctness_check">>

\* scorers, were the list extended whatever the flag
scorers_always_extended == rule_based_scorers \o llm_based_scorers

\* the list main.py builds and hands to mlflow.genai.evaluate
scorers ==
    rule_based_scorers
    \o (IF ENABLE_LLM_SCORERS THEN llm_based_scorers ELSE <<>>)

in_scorers(name) == \E i \in 1..Len(scorers) : scorers[i] = name

\* the inputs of a sample, and what the surroundings may do on one call
Inputs ==
    { Dict(<< <<"jp_text", Str("bun")>> >>),
      Dict(<< <<"jp_text", Str("")>> >>),
      Dict(<<>>) }

InvokeOutcomes ==
    { ScorerJudgment(TRUE, "r"), ScorerJudgment(FALSE, "r"),
      InvokeRaises("APIConnectionError"), InvokeRaises("APITimeoutError"),
      InvokeRaises("OutputParserException"), InvokeNone }

Environments ==
    { [prompt_file |-> "missing", template |-> "ok", api_key |-> "set",
       invoke |-> NotInvoked],
      [prompt_file |-> "found", template |-> "unknown field", api_key |-> "set",
       invoke |-> NotInvoked],
      [prompt_file |-> "found", template |-> "ok", api_key |-> "unset",
       invoke |-> NotInvoked] }
    \cup {[prompt_file |-> "found", template |-> "ok", api_key |-> "set",
            invoke |-> x] : x \in InvokeOutcomes}

\* the call got as far as llm.invoke
reached_invoke(r) ==
    /\ r.kind = "Feedback"
    /\ r.rationale.msg \in
          {"Question relevance: {result.reason}", "Option quality: {result.reason}",
           "Answer correctness: {result.reason}", "Error during LLM evaluation: {e}"}

\* the candidates of the evaluation: question lists over a sound question,
\* a question that is no mapping, and one whose options are not all strs
JudgePool == <<Pool[1], Pool[8], Pool[9]>>

JudgeLists ==
    UNION {{[i \in 1..n |-> JudgePool[f[i]]] : f \in [1..n -> 1..Len(JudgePool)]} :
             n \in 0..MaxQuestions}

EvaluateCandidates ==
    {Wrapped(qs) : qs \in JudgeLists}
    \cup {Text(json_dumps(Wrapped(qs))) : qs \in JudgeLists}
    \cup {QuestionSet(qs) :
            qs \in {x \in JudgeLists : \A i \in 1..Len(x) : is_question(x[i])}}
    \cup OtherCandidates

InitEvaluate ==
    /\ outputs \in EvaluateCandidates
    /\ called = "none"
    /\ returned = NotCalled
    /\ ENABLE_LLM_SCORERS \in BOOLEAN
    /\ judge = NotInvoked

Run_question_text_relevance ==
    /\ ENABLE_LLM_SCORERS
    /\ in_scorers("question_text_relevance")
    /\ \E inputs \in Inputs, e \in Environments :
          LET r == question_text_relevance(outputs, inputs, e) IN
          /\ called' = "question_text_relevance"
          /\ returned' = r
          /\ judge' = IF reached_invoke(r) THEN e.invoke ELSE NotInvoked
    /\ UNCHANGED <<outputs, ENABLE_LLM_SCORERS>>

Run_option_quality ==
    /\ ENABLE_LLM_SCORERS
    /\ in_scorers("option_quality")
    /\ \E e \in Environments :
          LET r == option_quality(outputs, e) IN
          /\ called' = "option_quality"
          /\ returned' = r
          /\ judge' = IF reached_invoke(r) THEN e.invoke ELSE NotInvoked
    /\ UNCHANGED <<outputs, ENABLE_LLM_SCORERS>>

Run_answer_correctness_check ==
    /\ ENABLE_LLM_SCORERS
    /\ in_scorers("answer_correctness_check")
    /\ \E inputs \in Inputs, e \in Environments :
          LET r == answer_correctness_check(outputs, inputs, e) IN
          /\ called' = "answer_correctness_check"
          /\ returned' = r
          /\ judge' = IF reached_invoke(r) THEN e.invoke ELSE NotInvoked
    /\ UNCHANGED <<outputs, ENABLE_LLM_SCORERS>>

NextEvaluate ==
    \/ predict_fn
    \/ Run_json_format_correct
    \/ Run_has_all_categories
    \/ Run_options_are_unique
    \/ Run_answer_is_valid
    \/ Run_has_sufficient_questions
    \/ Run_question_text_relevance
    \/ Run_option_quality
    \/ Run_answer_correctness_check

SpecEvaluate == InitEvaluate /\ [][NextEvaluate]_vars

(***************************************************************************)
(* Vocabulary of the properties.                                           *)
(***************************************************************************)
Scorers ==
    {"json_format_correct", "has_all_categories", "options_are_unique",
     "answer_is_valid", "has_sufficient_questions"}

\* what a call of the named scorer on o gives
score(name, o) ==
    CASE name = "json_format_correct" -> json_format_correct(o)
      [] name = "has_all_categories" -> has_all_categories(o)
      [] name = "options_are_unique" -> options_are_unique(o)
      [] name = "answer_is_valid" -> answer_is_valid(o)
      [] name = "has_sufficient_questions" -> has_sufficient_questions(o)

\* "yes" or "no", or "raise" when the call gave no Feedback
verdict(r) == IF r.kind = "Feedback" THEN r.value ELSE "raise"

\* the data of a candidate: a dict itself, the value a text parses to
Parsed(o) ==
    IF o.t = "text"
    THEN (LET r == json_loads(o.toks) IN IF r.ok THEN r.val ELSE None)
    ELSE o

\* d is a mapping with a list under "questions"
HasQuestionList(d) ==
    is_dict(d) /\ dict_has(d, "questions") /\ is_list(dict_get(d, "questions"))

\* the candidate is such a mapping, or the JSON text of one
HoldsQuestions(o) == o.t \in {"dict", "text"} /\ HasQuestionList(Parsed(o))

QuestionsOf(o) == dict_get(Parsed(o), "questions").xs

\* d is a list of question mappings
IsQuestionList(d) == is_list(d) /\ \A i \in 1..Len(d.xs) : is_dict(d.xs[i])

GoodThree == <<Pool[1], Pool[2], Pool[3]>>

(***************************************************************************)
(* C1.  Totality: whatever the candidate, a call of any of the five        *)
(* scorers returns a Feedback whose value is "yes" or "no"; no call        *)
(* raises.                                                                 *)
(***************************************************************************)
C1_Totality ==
    called \in Scorers =>
        returned.kind = "Feedback" /\ returned.value \in {"yes", "no"}

(***************************************************************************)
(* C2.  Shape tolerance, as claimed: on the wrapped mapping                *)
(* {"questions": qs} a scorer gives the verdict it gives on the bare list  *)
(* qs, as a value and as JSON text.                                        *)
(***************************************************************************)
C2_ShapeTolerance ==
    (called \in Scorers /\ is_dict(outputs) /\ HasQuestionList(outputs)) =>
        LET bare == dict_get(outputs, "questions") IN
        IsQuestionList(bare) =>
            /\ verdict(score(called, bare)) = verdict(returned)
            /\ verdict(score(called, Text(json_dumps(bare)))) = verdict(returned)

(***************************************************************************)
(* C2, amended.  A bare list of question mappings is not normalized to a   *)
(* question set: on the list as a value every scorer answers "no" with the *)
(* ValueError "Unexpected type" as rationale, and on its JSON text         *)
(* json_format_correct answers "no" for the missing 'questions' key and    *)
(* every other scorer "no" with "No questions found in output.", whatever  *)
(* the verdict on the wrapped mapping is.                                  *)
(***************************************************************************)
C2_BareListRejected ==
    (called \in Scorers /\ outputs.t \in {"list", "text"}) =>
        LET d == Parsed(outputs) IN
        IsQuestionList(d) =>
            /\ returned.kind = "Feedback"
            /\ returned.value = "no"
            /\ outputs.t = "list" =>
                 /\ returned.rationale.msg = "Output is not valid JSON: {e}"
                 /\ returned.rationale.e.exc = "ValueError"
                 /\ returned.rationale.e.type = "list"
            /\ outputs.t = "text" =>
                 returned.rationale.msg =
                     IF called = "json_format_correct"
                     THEN "Output JSON does not contain the required 'questions' key."
                     ELSE "No questions found in output."

\* a bare list of three questions is refused by has_sufficient_questions,
\* which accepts the same three questions wrapped
C2_Witness ==
    /\ called = "has_sufficient_questions"
    /\ outputs = Text(json_dumps(List(GoodThree)))
    /\ returned.value = "no"
    /\ has_sufficient_questions(Wrapped(GoodThree)).value = "yes"

(***************************************************************************)
(* C3.  Accepted shapes, as claimed: a QuestionSet object gets the verdict *)
(* that the mapping with its questions and the JSON text of that mapping   *)
(* get.                                                                    *)
(***************************************************************************)
C3_AcceptedShapes ==
    (called \in Scorers /\ outputs.t = "QuestionSet")
    => /\ verdict(returned) = verdict(score(called, Wrapped(outputs.qs)))
       /\ verdict(returned) = verdict(score(called, model_dump_json(outputs)))

(***************************************************************************)
(* C3, amended.  The scorers accept two shapes: a mapping, and JSON text   *)
(* that parses to a mapping.  A call on a mapping and the call on its JSON *)
(* text end the same way, with the same verdict and rationale.  A          *)
(* QuestionSet object is none of the accepted shapes: every scorer answers *)
(* "no" on it, the rationale holding the ValueError "Unexpected type".     *)
(***************************************************************************)
C3_TwoShapes ==
    called \in Scorers =>
       /\ is_dict(outputs) =>
            returned = score(called, Text(json_dumps(outputs)))
       /\ outputs.t = "text" =>
            LET d == Parsed(outputs) IN
            is_dict(d) => returned = score(called, d)
       /\ outputs.t = "QuestionSet" =>
            /\ verdict(returned) = "no"
            /\ returned.rationale.msg = "Output is not valid JSON: {e}"
            /\ returned.rationale.e.exc = "ValueError"
            /\ returned.rationale.e.type = "QuestionSet"

\* a QuestionSet of three questions is refused where its JSON text passes
C3_Witness ==
    /\ called = "has_sufficient_questions"
    /\ outputs = QuestionSet(GoodThree)
    /\ returned.value = "no"
    /\ has_sufficient_questions(model_dump_json(outputs)).value = "yes"
    /\ has_sufficient_questions(Wrapped(GoodThree)).value = "yes"

(***************************************************************************)
(* C4.  schema_valid, as claimed: json_format_correct answers "yes" only   *)
(* for a candidate that satisfies the Question/QuestionSet schema: a       *)
(* non-empty list of questions, each with the four fields of the declared  *)
(* types.                                                                  *)
(***************************************************************************)
SatisfiesSchema(o) ==
    /\ o.t \in {"dict", "text"}
    /\ LET d == Parsed(o) IN
       /\ HasQuestionList(d)
       /\ LET qs == dict_get(d, "questions").xs IN
          qs # <<>> /\ \A i \in 1..Len(qs) : is_question(qs[i])

C4_SchemaValid ==
    called = "json_format_correct" =>
        /\ returned.kind = "Feedback"
        /\ returned.value = "yes" <=> SatisfiesSchema(outputs)

(***************************************************************************)
(* C4, amended.  json_format_correct checks keys, not types or emptiness:  *)
(* it answers "no", with the reason as rationale, when the candidate is    *)
(* not JSON, holds no list under 'questions', or has a question that is no *)
(* mapping or lacks one of category, question, options, answer (the        *)
(* rationale names the first such question); in every other case, an empty *)
(* questions list and fields of wrong types included, it answers "yes"     *)
(* with the question count in the rationale.                               *)
(***************************************************************************)
HasFourKeys(q) ==
    /\ is_dict(q)
    /\ dict_has(q, "category") /\ dict_has(q, "question")
    /\ dict_has(q, "options") /\ dict_has(q, "answer")

C4_KeysOnly ==
    called = "json_format_correct" =>
        /\ returned.kind = "Feedback"
        /\ IF ~HoldsQuestions(outputs) THEN returned.value = "no"
           ELSE LET qs == QuestionsOf(outputs)
                    keyless == {i \in 1..Len(qs) : ~HasFourKeys(qs[i])} IN
                IF keyless = {}
                THEN returned.value = "yes" /\ returned.rationale.n = Len(qs)
                ELSE /\ returned.value = "no"
                     /\ \E i \in keyless :
                           /\ \A j \in keyless : i <= j
                           /\ returned.rationale.i = i - 1

\* "yes" for a candidate with a wrong-typed question
C4_Witness ==
    /\ called = "json_format_correct"
    /\ returned.value = "yes"
    /\ returned.rationale.n = 2
    /\ ~is_question(QuestionsOf(outputs)[2])

(***************************************************************************)
(* C5.  category_coverage: on a candidate that holds a question list whose *)
(* categories are strs, has_all_categories answers "yes" if and only if    *)
(* the categories present hit the facts bucket, the message bucket and the *)
(* grammar bucket; it passes for the categories {事実,                     *)
(* 暗示されたメッセージ, 文法や表現} and for {事実, メインポイント, 文法}, *)
(* and fails when every question has the category 事実.                   *)
(***************************************************************************)
CategoriesTyped(qs) ==
    \A i \in 1..Len(qs) :
        has_category(qs[i]) => dict_get(qs[i], "category").t = "str"

CategoryLabels(qs) ==
    {dict_get(qs[i], "category").s :
        i \in {j \in 1..Len(qs) : has_category(qs[j])}}

HitsAllBuckets(labels) ==
    /\ "jijitsu" \in labels
    /\ labels \cap {"meinpointo", "anji sareta messeji"} # {}
    /\ labels \cap {"bunpou", "hyougen", "bunpou ya hyougen"} # {}

C5_CategoryCoverage ==
    (called = "has_all_categories" /\ HoldsQuestions(outputs)) =>
        LET qs == QuestionsOf(outputs) IN
        CategoriesTyped(qs) =>
            LET labels == CategoryLabels(qs) IN
            /\ returned.kind = "Feedback"
            /\ returned.value = "yes" <=> HitsAllBuckets(labels)
            /\ labels = {"jijitsu", "anji sareta messeji", "bunpou ya hyougen"}
                 => returned.value = "yes"
            /\ labels = {"jijitsu", "meinpointo", "bunpou"}
                 => returned.value = "yes"
            /\ labels = {"jijitsu"} => returned.value = "no"

\* the first category set of the claim passes
C5_Witness ==
    /\ called = "has_all_categories"
    /\ returned.kind = "Feedback"
    /\ returned.value = "yes"
    /\ LET qs == QuestionsOf(outputs) IN
       /\ CategoriesTyped(qs)
       /\ CategoryLabels(qs) = {"jijitsu", "anji sareta messeji", "bunpou ya hyougen"}

(***************************************************************************)
(* C6.  options_unique: on a candidate that holds a question list whose    *)
(* option lists are lists of strs, options_are_unique answers "no" if and  *)
(* only if some question's option list holds the same string twice; the    *)
(* comparison is exact, so "a" and "A" are two options.                    *)
(***************************************************************************)
OptionsTyped(qs) ==
    \A i \in 1..Len(qs) :
        has_options(qs[i]) =>
            LET options == dict_get(qs[i], "options") IN
            /\ is_list(options)
            /\ \A j \in 1..Len(options.xs) : options.xs[j].t = "str"

HasDuplicateOption(q) ==
    /\ has_options(q)
    /\ LET xs == dict_get(q, "options").xs IN
       \E j, m \in 1..Len(xs) : j < m /\ xs[j].s = xs[m].s

C6_OptionsUnique ==
    (called = "options_are_unique" /\ HoldsQuestions(outputs)) =>
        LET qs == QuestionsOf(outputs) IN
        OptionsTyped(qs) =>
            /\ returned.kind = "Feedback"
            /\ returned.value = "no" <=>
                 \E i \in 1..Len(qs) : HasDuplicateOption(qs[i])

\* a question whose options repeat "a" around "b" makes the answer "no"
C6_Witness ==
    /\ called = "options_are_unique"
    /\ outputs = Wrapped(<<Pool[5], Pool[4]>>)
    /\ OptionsTyped(<<Pool[5], Pool[4]>>)
    /\ returned.value = "no"
    /\ options_are_unique(Wrapped(<<Pool[5]>>)).value = "yes"

(***************************************************************************)
(* C7.  answer_valid: on a candidate that holds a list of question         *)
(* mappings whose answers are scalars and whose options are lists,         *)
(* answer_is_valid fails a question when its answer is not one of A, B, C, *)
(* D, and otherwise exactly when the index of the letter (A=0 .. D=3) is   *)
(* >= the number of options; it answers "yes" iff no question fails.  With *)
(* two options, answer C fails and answer B passes.                        *)
(***************************************************************************)
AnswersTyped(qs) ==
    \A i \in 1..Len(qs) :
        LET q == qs[i] IN
        /\ is_dict(q)
        /\ dict_has(q, "answer") => dict_get(q, "answer").t \in {"str", "int", "none"}
        /\ dict_has(q, "options") => is_list(dict_get(q, "options"))

LetterIndex == [l \in {"A", "B", "C", "D"} |->
                   IF l = "A" THEN 0 ELSE IF l = "B" THEN 1
                   ELSE IF l = "C" THEN 2 ELSE 3]

NumOptions(q) ==
    IF dict_has(q, "options") THEN Len(dict_get(q, "options").xs) ELSE 0

AnswerFails(q) ==
    \/ ~dict_has(q, "answer")
    \/ LET answer == dict_get(q, "answer") IN
       \/ answer.t # "str"
       \/ answer.s \notin {"A", "B", "C", "D"}
       \/ LetterIndex[answer.s] >= NumOptions(q)

C7_AnswerValid ==
    (called = "answer_is_valid" /\ HoldsQuestions(outputs)) =>
        LET qs == QuestionsOf(outputs) IN
        AnswersTyped(qs) =>
            /\ returned.kind = "Feedback"
            /\ returned.value = "yes" <=> \A i \in 1..Len(qs) : ~AnswerFails(qs[i])
            /\ returned.value = "no" =>
                 \A k \in 1..Len(returned.rationale.issues) :
                     AnswerFails(qs[returned.rationale.issues[k].i + 1])

\* two options: answer C fails where answer B passes
C7_Witness ==
    /\ called = "answer_is_valid"
    /\ outputs = Wrapped(<<Pool[3]>>)
    /\ AnswersTyped(<<Pool[3]>>)
    /\ NumOptions(Pool[3]) = 2 /\ dict_get(Pool[3], "answer") = Str("C")
    /\ returned.value = "no"
    /\ NumOptions(Pool[2]) = 2 /\ dict_get(Pool[2], "answer") = Str("B")
    /\ answer_is_valid(Wrapped(<<Pool[2]>>)).value = "yes"

(***************************************************************************)
(* C8.  Collect-all: when options_are_unique or answer_is_valid answers    *)
(* "no" on such a candidate, the issues of the rationale are those of the  *)
(* violating questions, every one of them, in question order.              *)
(***************************************************************************)
IssueIndices(r) == [k \in 1..Len(r.rationale.issues) |-> r.rationale.issues[k].i]

\* the zero-based indices of the questions with a repeated option, and of
\* the questions whose answer fails, in question order
DuplicateIndices(qs) ==
    SelectSeq([i \in 1..Len(qs) |-> i - 1], LAMBDA i : HasDuplicateOption(qs[i + 1]))

FailingIndices(qs) ==
    SelectSeq([i \in 1..Len(qs) |-> i - 1], LAMBDA i : AnswerFails(qs[i + 1]))

C8_CollectAll ==
    (called \in {"options_are_unique", "answer_is_valid"}
       /\ returned.kind = "Feedback" /\ returned.value = "no"
       /\ HoldsQuestions(outputs)) =>
        LET qs == QuestionsOf(outputs) IN
        /\ (called = "options_are_unique" /\ OptionsTyped(qs))
             => IssueIndices(returned) = DuplicateIndices(qs)
        /\ (called = "answer_is_valid" /\ AnswersTyped(qs))
             => IssueIndices(returned) = FailingIndices(qs)

\* two violating questions with a sound one between them: both are named
C8_Witness ==
    /\ called = "answer_is_valid"
    /\ outputs = Wrapped(<<Pool[3], Pool[1], Pool[5]>>)
    /\ AnswersTyped(<<Pool[3], Pool[1], Pool[5]>>)
    /\ returned.value = "no"
    /\ IssueIndices(returned) = <<0, 2>>

(***************************************************************************)
(* C9.  sufficient_count: on a candidate that holds a question list,       *)
(* has_sufficient_questions answers "yes" if and only if the list has at   *)
(* least 3 questions, and the rationale reports the number: 3 pass, 2      *)
(* fail, 0 fail.                                                           *)
(***************************************************************************)
C9_SufficientCount ==
    (called = "has_sufficient_questions" /\ HoldsQuestions(outputs)) =>
        LET n == Len(QuestionsOf(outputs)) IN
        /\ returned.kind = "Feedback"
        /\ returned.value = "yes" <=> n >= 3
        /\ returned.rationale.num_questions = n
        /\ n = 3 => returned.value = "yes"
        /\ n \in {0, 2} => returned.value = "no"

\* exactly three questions pass
C9_Witness ==
    /\ called = "has_sufficient_questions"
    /\ returned.kind = "Feedback"
    /\ returned.value = "yes"
    /\ returned.rationale.num_questions = 3
    /\ Len(QuestionsOf(outputs)) = 3

(***************************************************************************)
(* C10.  Malformed JSON: on text that does not parse as JSON, the text     *)
(* not json among it, every scorer answers "no" with the JSON parse error  *)
(* in the rationale, and none raises.                                      *)
(***************************************************************************)
C10_MalformedJSON ==
    (called \in Scorers /\ outputs.t = "text") =>
        LET r == json_loads(outputs.toks) IN
        ~r.ok =>
            /\ returned.kind = "Feedback"
            /\ returned.value = "no"
            /\ returned.rationale.msg = "Output is not valid JSON: {e}"
            /\ returned.rationale.e.exc = "JSONDecodeError"
            /\ returned.rationale.e.msg = r.msg

\* the text not json, given to json_format_correct
C10_Witness ==
    /\ called = "json_format_correct"
    /\ outputs = Text(<<TWord("not"), TWord("json")>>)
    /\ returned.value = "no"
    /\ returned.rationale.e.msg = "Expecting value"

(***************************************************************************)
(* C11.  Semantic scorers fail closed: a call of question_text_relevance,  *)
(* option_quality or answer_correctness_check never raises to its caller;  *)
(* when llm.invoke raises, times out or gives no parseable judgment, the   *)
(* verdict is "no" with the error in the rationale; the verdict is "yes"   *)
(* only when the judge returned passed = true, and a judgment's boolean is *)
(* passed through unchanged.                                               *)
(***************************************************************************)
SemanticScorers ==
    {"question_text_relevance", "option_quality", "answer_correctness_check"}

C11_FailClosed ==
    called \in SemanticScorers =>
        /\ returned.kind = "Feedback"
        /\ returned.value \in {"yes", "no"}
        /\ judge.kind \in {"raise", "None"} =>
             /\ returned.value = "no"
             /\ returned.rationale.msg = "Error during LLM evaluation: {e}"
        /\ returned.value = "yes" =>
             judge.kind = "ScorerJudgment" /\ judge.passed
        /\ judge.kind = "ScorerJudgment" =>
             returned.value = (IF judge.passed THEN "yes" ELSE "no")

(***************************************************************************)
(* C12.  category_coverage rationale, as claimed: on every verdict of      *)
(* has_all_categories on a candidate that holds a question list, pass as   *)
(* well as fail, the rationale lists the missing bucket names (an empty    *)
(* list on pass) and the set of category values observed.                  *)
(***************************************************************************)
C12_RationaleOnEveryVerdict ==
    (called = "has_all_categories" /\ returned.kind = "Feedback"
       /\ HoldsQuestions(outputs)) =>
        /\ "missing" \in DOMAIN returned.rationale
        /\ "categories" \in DOMAIN returned.rationale
        /\ returned.value = "yes" => returned.rationale.missing = <<>>

(***************************************************************************)
(* C12, amended.  The rationale of has_all_categories depends on the       *)
(* verdict.  A fail verdict for a candidate that is not JSON or holds no   *)
(* question list names neither buckets nor categories.  Otherwise the      *)
(* rationale holds the raw set of category values observed; on fail it     *)
(* also lists the names of the missing buckets, every one of them, in the  *)
(* order facts, message, grammar; on pass it lists no missing buckets at   *)
(* all, not even an empty list.                                            *)
(***************************************************************************)
\* the category values of the questions that are mappings with a category
RawCategories(qs) ==
    {dict_get(qs[i], "category") : i \in {j \in 1..Len(qs) : has_category(qs[j])}}

\* the names of the buckets that no category of the set hits
MissingBuckets(cats) ==
    (IF Str("jijitsu") \in cats THEN <<>> ELSE <<"jijitsu">>)
    \o (IF cats \cap {Str("meinpointo"), Str("anji sareta messeji")} # {}
        THEN <<>> ELSE <<"meinpointo/anji sareta messeji">>)
    \o (IF cats \cap {Str("bunpou"), Str("hyougen"), Str("bunpou ya hyougen")} # {}
        THEN <<>> ELSE <<"bunpou ya hyougen">>)

C12_RationaleByVerdict ==
    (called = "has_all_categories" /\ returned.kind = "Feedback") =>
        IF ~HoldsQuestions(outputs)
        THEN /\ returned.value = "no"
             /\ DOMAIN returned.rationale \cap {"missing", "categories"} = {}
        ELSE LET cats == RawCategories(QuestionsOf(outputs)) IN
             /\ returned.rationale.categories = cats
             /\ returned.value = "no" =>
                  /\ returned.rationale.missing = MissingBuckets(cats)
                  /\ returned.rationale.missing # <<>>
             /\ returned.value = "yes" =>
                  /\ "missing" \notin DOMAIN returned.rationale
                  /\ MissingBuckets(cats) = <<>>

\* a fail verdict that names two missing buckets next to the one category
\* found
C12_Witness ==
    /\ called = "has_all_categories"
    /\ outputs = Wrapped(<<Pool[2]>>)
    /\ returned.value = "no"
    /\ returned.rationale.missing = <<"jijitsu", "bunpou ya hyougen">>
    /\ returned.rationale.categories = {Str("meinpointo")}

(***************************************************************************)
(* C13.  Gating of the semantic scorers: with ENABLE_LLM_SCORERS off the   *)
(* active scorers are exactly the five rule-based ones, and no semantic    *)
(* scorer is run or has a result; with the flag on they are those five     *)
(* and exactly the three semantic ones.                                    *)
(***************************************************************************)
ActiveScorers == {scorers[i] : i \in 1..Len(scorers)}

C13_Gating ==
    /\ ~ENABLE_LLM_SCORERS => ActiveScorers = Scorers
    /\ ENABLE_LLM_SCORERS => ActiveScorers = Scorers \cup SemanticScorers
    /\ Len(scorers) = Cardinality(ActiveScorers)
    /\ called \in SemanticScorers => ENABLE_LLM_SCORERS
    /\ called # "none" => called \in ActiveScorers
    /\ judge # NotInvoked => ENABLE_LLM_SCORERS

\* with the flag on, a semantic scorer has run and has given its verdict
C13_Witness ==
    /\ ENABLE_LLM_SCORERS
    /\ Len(scorers) = 8
    /\ called = "option_quality"
    /\ returned.kind = "Feedback"
    /\ returned.value = "yes"
    /\ judge = ScorerJudgment(TRUE, "r")

(***************************************************************************)
(* C15.  Bucket membership in has_all_categories is exact equality of a    *)
(* category with a label of a fixed table - facts: 事実; message:          *)
(* メインポイント or 暗示されたメッセージ; grammar: 文法, 表現 or          *)
(* 文法や表現.  On a candidate that holds a question list whose categories *)
(* are strs, the buckets reported missing are exactly those no category    *)
(* equals a label of; so 表現 alone satisfies the grammar bucket, and a    *)
(* category that only contains a label (メインポイント/暗示されたメッセージ, *)
(* or 事実 between blanks) satisfies no bucket.                            *)
(***************************************************************************)
LabelTable ==
    [facts |-> {"jijitsu"},
     message |-> {"meinpointo", "anji sareta messeji"},
     grammar |-> {"bunpou", "hyougen", "bunpou ya hyougen"}]

BucketName ==
    [facts |-> "jijitsu",
     message |-> "meinpointo/anji sareta messeji",
     grammar |-> "bunpou ya hyougen"]

\* the names of the buckets the verdict reports as not satisfied
ReportedMissing(r) ==
    IF r.value = "yes" THEN {}
    ELSE {r.rationale.missing[k] : k \in 1..Len(r.rationale.missing)}

C15_ExactLabels ==
    (called = "has_all_categories" /\ HoldsQuestions(outputs)) =>
        LET qs == QuestionsOf(outputs) IN
        CategoriesTyped(qs) =>
            LET labels == CategoryLabels(qs) IN
            /\ returned.kind = "Feedback"
            /\ ReportedMissing(returned) =
                 {BucketName[b] : b \in {x \in DOMAIN LabelTable :
                                           labels \cap LabelTable[x] = {}}}
            /\ labels = {"jijitsu", "meinpointo", "hyougen"}
                 => returned.value = "yes"
            /\ labels \subseteq {"meinpointo/anji sareta messeji", " jijitsu "}
                 => ReportedMissing(returned) =
                      {BucketName[b] : b \in DOMAIN BucketName}
            /\ labels = {" jijitsu ", "meinpointo", "bunpou ya hyougen"}
                 => ReportedMissing(returned) = {"jijitsu"}

\* the category メインポイント/暗示されたメッセージ next to 事実 and
\* 文法や表現: the message bucket is reported missing
C15_Witness ==
    /\ called = "has_all_categories"
    /\ outputs = Wrapped(<<Pool[1], Pool[9], Pool[3]>>)
    /\ CategoryLabels(<<Pool[1], Pool[9], Pool[3]>>)
         = {"jijitsu", "meinpointo/anji sareta messeji", "bunpou ya hyougen"}
    /\ returned.value = "no"
    /\ returned.rationale.missing = <<"meinpointo/anji sareta messeji">>

====
